---- MODULE Spec2Model ----
(***************************************************************************)
(* py-webdav: the INFORM API client's OAuth2 token lifecycle               *)
(* (py_webdav/inform_api_client.py) and the CalDAV object PUT / DELETE     *)
(* path of the INFORM backend (py_webdav/caldav/inform_backend.py,         *)
(* py_webdav/server.py).                                                   *)
(*                                                                         *)
(* Two specifications share the module:                                    *)
(*   SpecToken  concurrent callers of InformAPIClient._make_request        *)
(*   SpecDav    one CalDAV PUT / DELETE handler against the upstream       *)
(* Each specification leaves the other's variables at their initial value. *)
(***************************************************************************)
EXTENDS Integers, Sequences, FiniteSets, TLC

(***************************************************************************)
(* Bounds of the model                                                     *)
(***************************************************************************)
TickSeconds == 60          \* granularity of the modelled clock
MaxNow == 180              \* the clock stops here
MaxCalls == 3              \* _make_request calls started in one behaviour

(***************************************************************************)
(* Program constants                                                       *)
(***************************************************************************)
ExpiryMarginSeconds == 60  \* InformTokens.is_expired: timedelta(seconds=60)
DefaultExpiresIn == 1800   \* data.get("expiresIn", 1800)

Callers == {"c1", "c2"}    \* coroutines that call _make_request
NoHolder == "nobody"
NoTokens == [access_token |-> 0, refresh_token |-> 0, expires_at |-> 0, grant |-> "none"]
Omitted == -1
\* expiresIn values the upstream may answer with (Omitted: the field is absent)
ExpiresInValues == {60, 120, Omitted}
TokenIds == 0..MaxCalls

VARIABLES
    now,            \* datetime.now(UTC), in seconds
    tokens,         \* InformAPIClient._tokens (NoTokens models None)
    lockHolder,     \* InformAPIClient._token_lock: the coroutine that holds it
    lockWaiters,    \* asyncio.Lock._waiters, FIFO
    pc,             \* position of each caller inside _make_request
    tok,            \* the access token _ensure_valid_token returned to each caller
    minted,         \* number of token sets the upstream has issued
    callsStarted,   \* number of _make_request calls started
    hist            \* history: what was posted and observed (never read by the code)

tokenVars == <<now, tokens, lockHolder, lockWaiters, pc, tok, minted, callsStarted, hist>>

(***************************************************************************)
(* InformTokens.is_expired                                                 *)
(***************************************************************************)
is_expired_no_margin(t, clock) == clock >= t.expires_at

is_expired(t, clock) == clock >= t.expires_at - ExpiryMarginSeconds

(***************************************************************************)
(* The token set built from a successful POST /token response              *)
(* (_request_token_with_password / _request_token_with_refresh)            *)
(***************************************************************************)
ExpiresIn(field) == IF field = Omitted THEN DefaultExpiresIn ELSE field

NewTokens(id, field, clock, grant) ==
    [access_token |-> id, refresh_token |-> id,
     expires_at |-> clock + ExpiresIn(field), grant |-> grant]

(***************************************************************************)
(* asyncio.Lock: acquire succeeds at once when the lock is not held and    *)
(* nobody waits; release hands the lock to the first waiter.               *)
(***************************************************************************)
LockIsFreeUnguarded(holder, waiters) == TRUE

LockIsFree(holder, waiters) == holder = NoHolder /\ waiters = <<>>

LockKept(holder, p) == holder

LockReleased(holder, p) == IF holder = p THEN NoHolder ELSE holder

(***************************************************************************)
(* History bookkeeping                                                     *)
(***************************************************************************)
HistInit ==
    [refreshIssued  |-> [i \in TokenIds |-> 0],
     refreshFailed  |-> [i \in TokenIds |-> 0],
     passwordIssued |-> [i \in TokenIds |-> 0],
     passwordFailed |-> [i \in TokenIds |-> 0],
     startTok       |-> [p \in Callers |-> 0],
     startStale     |-> [p \in Callers |-> FALSE],
     checkedTok     |-> [p \in Callers |-> 0],
     checkedStale   |-> [p \in Callers |-> FALSE],
     refreshOutcome |-> [p \in Callers |-> "none"],
     passwordOutcome|-> [p \in Callers |-> "none"],
     lockAtSend     |-> [p \in Callers |-> NoHolder],
     waited         |-> [p \in Callers |-> FALSE],
     checked        |-> [p \in Callers |-> FALSE],
     grantOf        |-> [i \in TokenIds |-> "none"]]

Bump(f, i) == [f EXCEPT ![i] = @ + 1]

\* the per-call part of the history is dropped when the call is over
ForgetCall(h, p) ==
    [h EXCEPT !.startTok[p] = 0, !.startStale[p] = FALSE,
              !.checkedTok[p] = 0, !.checkedStale[p] = FALSE,
              !.refreshOutcome[p] = "none", !.passwordOutcome[p] = "none",
              !.lockAtSend[p] = NoHolder, !.waited[p] = FALSE, !.checked[p] = FALSE]

\* the body of "async with self._token_lock:" up to its first await or return,
\* run by caller p that has just acquired the lock
EnterLocked(p, h) ==
    LET stale == tokens # NoTokens /\ now >= tokens.expires_at - ExpiryMarginSeconds
        h1 == [h EXCEPT !.checkedTok[p] = tokens.access_token,
                        !.checkedStale[p] = stale,
                        !.checked[p] = TRUE]
    IN  IF tokens = NoTokens
        THEN /\ pc' = [pc EXCEPT ![p] = "password_post"]
             /\ lockHolder' = p
             /\ tok' = tok
             /\ hist' = [h1 EXCEPT !.passwordIssued = Bump(@, 0)]
        ELSE IF is_expired(tokens, now)
        THEN /\ pc' = [pc EXCEPT ![p] = "refresh_post"]
             /\ lockHolder' = p
             /\ tok' = tok
             /\ hist' = [h1 EXCEPT !.refreshIssued = Bump(@, tokens.refresh_token)]
        ELSE /\ pc' = [pc EXCEPT ![p] = "api"]
             /\ lockHolder' = LockReleased(p, p)
             /\ tok' = [tok EXCEPT ![p] = tokens.access_token]
             /\ hist' = [h1 EXCEPT !.lockAtSend[p] = LockReleased(p, p)]

\* _make_request is entered: _ensure_valid_token tries to take the lock
Start(p) ==
    /\ pc[p] = "idle"
    /\ callsStarted < MaxCalls
    /\ callsStarted' = callsStarted + 1
    /\ LET h == [hist EXCEPT !.startTok[p] = tokens.access_token,
                             !.startStale[p] = (tokens # NoTokens
                                  /\ now >= tokens.expires_at - ExpiryMarginSeconds)]
       IN  IF LockIsFree(lockHolder, lockWaiters)
           THEN /\ EnterLocked(p, h)
                /\ UNCHANGED lockWaiters
           ELSE /\ pc' = [pc EXCEPT ![p] = "acquire"]
                /\ lockWaiters' = Append(lockWaiters, p)
                /\ hist' = [h EXCEPT !.waited[p] = TRUE]
                /\ UNCHANGED <<lockHolder, tok>>
    /\ UNCHANGED <<now, tokens, minted>>

\* the first waiter is woken after a release and takes the lock
Wake(p) ==
    /\ pc[p] = "acquire"
    /\ lockWaiters # <<>>
    /\ Head(lockWaiters) = p
    /\ lockHolder = NoHolder
    /\ lockWaiters' = Tail(lockWaiters)
    /\ EnterLocked(p, hist)
    /\ UNCHANGED <<now, tokens, minted, callsStarted>>

\* "except Exception:" around the refresh grant: the next step of the caller
OnRefreshFailurePropagates == "token_error"

OnRefreshFailure == "password_post"

\* the upstream answers the POST /token with grantType=refreshToken
RefreshResponse(p) ==
    /\ pc[p] = "refresh_post"
    /\ \/ \E field \in ExpiresInValues :
            LET t == NewTokens(minted + 1, field, now, "refreshToken")
            IN  /\ tokens' = t
                /\ minted' = minted + 1
                /\ tok' = [tok EXCEPT ![p] = t.access_token]
                /\ lockHolder' = LockReleased(lockHolder, p)
                /\ pc' = [pc EXCEPT ![p] = "api"]
                /\ hist' = [hist EXCEPT !.refreshOutcome[p] = "ok",
                                        !.grantOf[t.access_token] = "refreshToken",
                                        !.lockAtSend[p] = LockReleased(lockHolder, p)]
       \/ \* raise_for_status() or a transport error: "except Exception" falls back
          /\ pc' = [pc EXCEPT ![p] = OnRefreshFailure]
          /\ hist' = [hist EXCEPT !.refreshOutcome[p] = "fail",
                                  !.refreshFailed = Bump(@, tokens.refresh_token),
                                  !.passwordIssued = Bump(@, tokens.refresh_token)]
          /\ UNCHANGED <<tokens, minted, tok, lockHolder>>
    /\ UNCHANGED <<now, lockWaiters, callsStarted>>

\* the upstream answers the POST /token with grantType=password
PasswordResponse(p) ==
    /\ pc[p] = "password_post"
    /\ \/ \E field \in ExpiresInValues :
            LET t == NewTokens(minted + 1, field, now, "password")
            IN  /\ tokens' = t
                /\ minted' = minted + 1
                /\ tok' = [tok EXCEPT ![p] = t.access_token]
                /\ lockHolder' = LockReleased(lockHolder, p)
                /\ pc' = [pc EXCEPT ![p] = "api"]
                /\ hist' = [hist EXCEPT !.passwordOutcome[p] = "ok",
                                        !.grantOf[t.access_token] = "password",
                                        !.lockAtSend[p] = LockReleased(lockHolder, p)]
       \/ \* the exception leaves "async with": the lock is released, _tokens untouched
          /\ pc' = [pc EXCEPT ![p] = "token_error"]
          /\ lockHolder' = LockReleased(lockHolder, p)
          /\ hist' = [hist EXCEPT !.passwordOutcome[p] = "fail",
                                  !.passwordFailed = Bump(@, tokens.refresh_token)]
          /\ UNCHANGED <<tokens, minted, tok>>
    /\ UNCHANGED <<now, lockWaiters, callsStarted>>

\* the upstream answers the API request itself (client.request + raise_for_status)
ApiResponse(p) ==
    /\ pc[p] = "api"
    /\ \E outcome \in {"done", "api_error"} : pc' = [pc EXCEPT ![p] = outcome]
    /\ UNCHANGED <<now, tokens, lockHolder, lockWaiters, tok, minted, callsStarted, hist>>

\* _make_request has returned or raised; the coroutine may call again
Return(p) ==
    /\ pc[p] \in {"done", "api_error", "token_error"}
    /\ pc' = [pc EXCEPT ![p] = "idle"]
    /\ tok' = [tok EXCEPT ![p] = 0]
    /\ hist' = ForgetCall(hist, p)
    /\ UNCHANGED <<now, tokens, lockHolder, lockWaiters, minted, callsStarted>>

\* time passes
Tick ==
    /\ now + TickSeconds <= MaxNow
    /\ now' = now + TickSeconds
    /\ UNCHANGED <<tokens, lockHolder, lockWaiters, pc, tok, minted, callsStarted, hist>>


(***************************************************************************)
(* CalDAV object PUT / DELETE against the INFORM upstream                  *)
(***************************************************************************)
\* a path is a sequence of segments, a segment a sequence of tokens
\* (single characters, the two directory words and the ".ics" suffix)
CalendarPath == << <<"calendars">>, <<"default">> >>   \* _get_calendar_path()
ObjectPath(stem) == CalendarPath \o << stem \o <<".ics">> >>

UpstreamKeys == { <<"A">>, <<"B">> }     \* keys the upstream assigns
OccurrenceIds == { "x", "y" }            \* occurrence ids of a series in the window
UuidStem == <<"u", "-", "v">>            \* a client-generated UUID file name
FreshStem == <<"n">>                     \* a client-chosen name without hyphen
OccurrenceStems == { k \o <<"-", o>> : k \in UpstreamKeys, o \in OccurrenceIds }
Stems == UpstreamKeys \cup OccurrenceStems \cup {UuidStem, FreshStem}
RequestPaths == { ObjectPath(s) : s \in Stems } \cup {CalendarPath}

Subjects == {"s1", "s2"}
NoEvent == [present |-> FALSE, subject |-> "", eventMode |-> "single"]
UpstreamEvent(s) == [present |-> TRUE, subject |-> s, eventMode |-> "single"]
UpstreamSeries(s) == [present |-> TRUE, subject |-> s, eventMode |-> "serial"]

\* request bodies: unparsable / without VEVENT, one VEVENT with an optional
\* SUMMARY, one VEVENT with an RRULE, a body that names METHOD, and a body
\* with two VEVENTs
NoBody == [valid |-> FALSE, summary |-> "", rrule |-> FALSE, method |-> FALSE, vevents |-> 0]
PlainBody(s) == [valid |-> TRUE, summary |-> s, rrule |-> FALSE, method |-> FALSE, vevents |-> 1]
Bodies == {NoBody}
          \cup {PlainBody(s) : s \in Subjects \cup {""}}
          \cup {[PlainBody("s1") EXCEPT !.rrule = TRUE],
                [PlainBody("s1") EXCEPT !.method = TRUE],
                [PlainBody("s1") EXCEPT !.vevents = 2]}

\* the iCalendar text, reduced to the fields that vary here
NoIcal == [uid |-> <<>>, summary |-> "", dtstamp |-> -1, rrule |-> FALSE]

\* hashlib.md5(...).hexdigest(), abstracted as an injective digest
NoEtag == <<"none", NoIcal>>
md5(ical) == <<"md5", ical>>

\* header values: absent, "*", or a quoted entity tag
NoHeader == [kind |-> "absent", etag |-> NoEtag]
StarHeader == [kind |-> "star", etag |-> NoEtag]
QuotedEtag(e) == [kind |-> "quoted", etag |-> e]
StripQuotes(h) == h.etag

(***************************************************************************)
(* InformCalDAVBackend._parse_object_path                                  *)
(***************************************************************************)
PathParts(path) ==
    SelectSeq(path, LAMBDA seg : seg # <<>> /\ seg \notin {<<"calendars">>, <<"default">>})

StripIcs(seg) ==
    IF Len(seg) > 0 /\ seg[Len(seg)] = ".ics" THEN SubSeq(seg, 1, Len(seg) - 1) ELSE seg

_parse_object_path(path) ==
    IF PathParts(path) = <<>> THEN [ok |-> FALSE, key |-> <<>>]
    ELSE [ok |-> TRUE, key |-> StripIcs(PathParts(path)[1])]

\* the test  "-" in path_str
NeverHyphen(stem) == FALSE

HasHyphen(stem) == \E i \in 1..Len(stem) : stem[i] = "-"

(***************************************************************************)
(* InformCalDAVBackend._ical_to_inform_event: the first VEVENT of the body  *)
(* is translated, whatever else the body holds; an RRULE makes the event   *)
(* serial                                                                  *)
(***************************************************************************)
_ical_to_inform_event(body) ==
    IF ~body.valid
    THEN [ok |-> FALSE, has_subject |-> FALSE, subject |-> "", eventMode |-> "single"]
    ELSE [ok |-> TRUE, has_subject |-> body.summary # "", subject |-> body.summary,
          eventMode |-> IF body.rrule THEN "serial" ELSE "single"]

(***************************************************************************)
(* InformCalDAVBackend._inform_occurrence_to_ical: UID is the key (or      *)
(* key-occurrenceId, see OccurrenceUid), SUMMARY the subject when it is    *)
(* not empty, DTSTAMP the time of the translation; no RRULE is written     *)
(***************************************************************************)
_inform_occurrence_to_ical(key, event, clock) ==
    [uid |-> key, summary |-> event.subject, dtstamp |-> clock, rrule |-> FALSE]

\* the UID of an occurrence record: key-occurrenceId when it has an occurrenceId
NoOccurrence == ""
OccurrenceUid(key, occurrence_id) ==
    IF occurrence_id # NoOccurrence THEN key \o <<"-", occurrence_id>> ELSE key

VARIABLES
    events,     \* the upstream's calendar events, by key
    req,        \* the CalDAV request being handled
    hpc,        \* position of the handler
    hv,         \* the handler's local variables
    resp,       \* the response sent to the client
    calls,      \* upstream calls issued for the current request
    dh,         \* history of the current request (never read by the code)
    last        \* the last write a client completed, until the next write
                \* request arrives (never read by the code)

davVars == <<events, req, hpc, hv, resp, calls, dh, last>>

NoReq == [method |-> "none", path |-> <<>>, if_none_match |-> NoHeader,
          if_match |-> NoHeader, body |-> NoBody, depth |-> 0, hrefs |-> {}]
NoLocation == <<>>
NoResp == [status |-> 0, etag |-> NoHeader, path |-> <<>>, data |-> NoIcal,
           location |-> NoLocation, responses |-> {}]
HvInit == [event_key |-> <<>>, event_exists |-> FALSE]
DhInit == [existed |-> FALSE, etagAtStart |-> NoEtag, fault |-> FALSE,
           created |-> FALSE, updated |-> FALSE, deleted |-> FALSE, kind |-> "none"]

NoLast == [op |-> "none", path |-> <<>>, etag |-> NoEtag]

\* the ways an upstream call fails: 404, 400, 5xx, no answer, 401
FailureKinds == {"not_found", "bad_request", "server", "network", "auth"}

Exists(k) == k \in UpstreamKeys /\ events[k].present

\* the event the upstream stores after a POST or PATCH with the translated body
WrittenEvent(data, old) ==
    [present |-> TRUE,
     subject |-> IF data.has_subject THEN data.subject ELSE old.subject,
     eventMode |-> data.eventMode]

\* the upstream's events after DELETE /calendarEvents/{key}
delete_nothing(evts, key) == evts

delete_calendar_event(evts, key) == [evts EXCEPT ![key] = NoEvent]

\* what a GET of the object at key k would compute as its ETag at time clock
CurrentEtag(k, clock) ==
    IF Exists(k) THEN md5(_inform_occurrence_to_ical(k, events[k], clock)) ELSE NoEtag

\* entity tags a client may hold for key k: of any content, stamped up to now
KnownEtags(k) ==
    { md5(_inform_occurrence_to_ical(k, UpstreamEvent(s), t)) :
         s \in Subjects, t \in {now, now - TickSeconds} \cap (0..MaxNow) }

\* the response Handler.handle builds: the status and, from the CalendarObject
\* of a PUT, the ETag header; no other header is set (path and data are the
\* CalendarObject's fields, which stay inside the server)
Respond(status, etag, path) ==
    [status |-> status, etag |-> etag, path |-> path, data |-> NoIcal,
     location |-> NoLocation, responses |-> {}]

\* Handler.handle receives a PUT below the calendar home and runs
\* put_calendar_object up to its first upstream call
PutReceive ==
    /\ hpc = "idle"
    /\ \E path \in RequestPaths, body \in Bodies, inm \in {NoHeader, StarHeader} :
       \E im \in {NoHeader} \cup { QuotedEtag(e) : e \in KnownEtags(_parse_object_path(path).key) } :
          LET parsed == _parse_object_path(path)
              key == parsed.key
              r == [NoReq EXCEPT !.method = "PUT", !.path = path, !.if_none_match = inm,
                                 !.if_match = im, !.body = body]
          IN  /\ req' = r
              /\ calls' = <<>>
              /\ dh' = [DhInit EXCEPT !.existed = Exists(key),
                                      !.etagAtStart = CurrentEtag(key, now)]
              /\ IF ~parsed.ok
                 THEN /\ resp' = Respond(404, NoHeader, <<>>)
                      /\ hpc' = "responded"
                      /\ hv' = HvInit
                 ELSE IF HasHyphen(key)
                 THEN /\ resp' = Respond(405, NoHeader, <<>>)
                      /\ hpc' = "responded"
                      /\ hv' = HvInit
                 ELSE IF ~_ical_to_inform_event(body).ok
                 THEN /\ resp' = Respond(400, NoHeader, <<>>)
                      /\ hpc' = "responded"
                      /\ hv' = HvInit
                 ELSE /\ resp' = NoResp
                      /\ hpc' = "put_probe"
                      /\ hv' = [event_key |-> key, event_exists |-> FALSE]
    /\ last' = NoLast
    /\ UNCHANGED events

\* the handler's locals after the existence probe, then the precondition checks
\* and the create-or-update call (put_calendar_object, "Check if event exists")
PutProbeResponse ==
    /\ hpc = "put_probe"
    /\ \E answer \in {"truthful", "error"} :
          LET key == hv.event_key
              event_exists == answer = "truthful" /\ Exists(key)
              inm == req.if_none_match = StarHeader
              im == req.if_match.kind # "absent"
          IN  /\ calls' = Append(calls, "GET")
              /\ dh' = [dh EXCEPT !.fault = @ \/ answer = "error"]
              /\ hv' = [hv EXCEPT !.event_exists = event_exists]
              /\ IF inm /\ event_exists
                 THEN /\ resp' = Respond(412, NoHeader, <<>>)
                      /\ hpc' = "responded"
                 ELSE IF im /\ ~event_exists
                 THEN /\ resp' = Respond(412, NoHeader, <<>>)
                      /\ hpc' = "responded"
                 ELSE /\ resp' = resp
                      /\ hpc' = IF event_exists THEN "put_patch" ELSE "put_post"
    /\ UNCHANGED <<events, req, last>>

\* the upstream answers PATCH /calendarEvents/{key}; on success the read-back follows
PutPatchResponse ==
    /\ hpc = "put_patch"
    /\ calls' = Append(calls, "PATCH")
    /\ LET key == hv.event_key
           data == _ical_to_inform_event(req.body)
           patched == WrittenEvent(data, events[key])
       IN  \/ /\ Exists(key)
              /\ events' = [events EXCEPT ![key] = patched]
              /\ dh' = [dh EXCEPT !.updated = TRUE]
              /\ hpc' = "put_readback"
              /\ resp' = resp
           \/ \E kind \in FailureKinds \ {"not_found"} :
              /\ UNCHANGED events
              /\ dh' = [dh EXCEPT !.fault = TRUE, !.kind = kind]
              /\ hpc' = "responded"
              /\ resp' = Respond(500, NoHeader, <<>>)
    /\ UNCHANGED <<req, hv, last>>

\* the upstream answers POST /calendarEvents with the key it assigned
PutPostResponse ==
    /\ hpc = "put_post"
    /\ calls' = Append(calls, "POST")
    /\ LET data == _ical_to_inform_event(req.body)
       IN  \/ \E k \in UpstreamKeys :
                /\ ~events[k].present
                /\ events' = [events EXCEPT ![k] = WrittenEvent(data, NoEvent)]
                /\ hv' = [hv EXCEPT !.event_key = k]
                /\ dh' = [dh EXCEPT !.created = TRUE]
                /\ hpc' = "put_readback"
                /\ resp' = resp
           \/ \E kind \in FailureKinds \ {"not_found"} :
              /\ UNCHANGED <<events, hv>>
              /\ dh' = [dh EXCEPT !.fault = TRUE, !.kind = kind]
              /\ hpc' = "responded"
              /\ resp' = Respond(500, NoHeader, <<>>)
    /\ UNCHANGED <<req, last>>

\* status of a PUT that the backend completed (Handler.handle)
PutStatus(if_none_match) == IF if_none_match THEN 201 ELSE 204

\* the upstream answers the read-back GET; the backend returns the CalendarObject
\* and Handler.handle builds the response
PutReadbackResponse ==
    /\ hpc = "put_readback"
    /\ calls' = Append(calls, "GET")
    /\ LET key == hv.event_key
           result_ical == _inform_occurrence_to_ical(key, events[key], now)
           etag == md5(result_ical)
           path == IF ~hv.event_exists THEN ObjectPath(key) ELSE req.path
       IN  \/ /\ Exists(key)
              /\ resp' = [Respond(PutStatus(req.if_none_match = StarHeader),
                                  QuotedEtag(etag), path) EXCEPT !.data = result_ical]
              /\ dh' = dh
              /\ last' = [op |-> "PUT", path |-> path, etag |-> etag]
           \/ \E kind \in FailureKinds \ {"not_found"} :
              /\ resp' = Respond(500, NoHeader, <<>>)
              /\ dh' = [dh EXCEPT !.fault = TRUE, !.kind = kind]
              /\ last' = last
    /\ hpc' = "responded"
    /\ UNCHANGED <<events, req, hv>>

\* Handler.handle receives a DELETE below the calendar home and runs
\* delete_calendar_object up to its upstream call
DeleteReceive ==
    /\ hpc = "idle"
    /\ \E path \in RequestPaths :
          LET parsed == _parse_object_path(path)
              key == parsed.key
          IN  /\ req' = [NoReq EXCEPT !.method = "DELETE", !.path = path]
              /\ calls' = <<>>
              /\ dh' = [DhInit EXCEPT !.existed = Exists(key),
                                      !.etagAtStart = CurrentEtag(key, now)]
              /\ IF ~parsed.ok
                 THEN /\ resp' = Respond(404, NoHeader, <<>>)
                      /\ hpc' = "responded"
                      /\ hv' = HvInit
                 ELSE IF HasHyphen(key)
                 THEN /\ resp' = Respond(405, NoHeader, <<>>)
                      /\ hpc' = "responded"
                      /\ hv' = HvInit
                 ELSE /\ resp' = NoResp
                      /\ hpc' = "delete"
                      /\ hv' = [event_key |-> key, event_exists |-> FALSE]
    /\ last' = NoLast
    /\ UNCHANGED events

\* the upstream answers DELETE /calendarEvents/{key}
DeleteResponse ==
    /\ hpc = "delete"
    /\ calls' = Append(calls, "DELETE")
    /\ LET key == hv.event_key
       IN  \/ /\ Exists(key)
              /\ events' = delete_calendar_event(events, key)
              /\ dh' = [dh EXCEPT !.deleted = TRUE]
              /\ resp' = Respond(204, NoHeader, <<>>)
              /\ last' = [op |-> "DELETE", path |-> req.path, etag |-> NoEtag]
           \/ \* 404 for a missing key, or any other failure: every exception maps to 404
              \E kind \in FailureKinds :
              /\ kind = "not_found" => ~Exists(key)
              /\ UNCHANGED <<events, last>>
              /\ dh' = [dh EXCEPT !.fault = kind # "not_found", !.kind = kind]
              /\ resp' = Respond(404, NoHeader, <<>>)
    /\ hpc' = "responded"
    /\ UNCHANGED <<req, hv>>

(***************************************************************************)
(* Reading: GET, PROPFIND and the two REPORTs                              *)
(***************************************************************************)
HomePath == << <<"calendars">> >>        \* calendar_home_path
ReadPaths == RequestPaths \cup {HomePath}

\* files below the calendar home in the local filesystem: the INFORM backend
\* keeps its objects upstream and writes none
LocalFiles == {}

\* WebDAVBackend.head_get, reached by a GET that no CalDAV route takes:
\* filesystem.stat of a missing file is answered 404
head_get(path) == IF path \in LocalFiles THEN 200 ELSE 404

\* detect_resource_type: the number of path segments, at most 3
detect_resource_type(path) ==
    CASE Len(path) = 0 -> "root"
      [] Len(path) = 1 -> "home"
      [] Len(path) = 2 -> "calendar"
      [] OTHER -> "object"

\* the records of GET /calendarEvents/occurrences: one for a single event,
\* one for each occurrence of a series, all inside the window asked for
get_calendar_events_occurrences(evts) ==
    { [key |-> k, occurrenceId |-> NoOccurrence] :
         k \in { k \in UpstreamKeys : evts[k].present /\ evts[k].eventMode = "single" } }
    \cup
    { [key |-> k, occurrenceId |-> o] :
         k \in { k \in UpstreamKeys : evts[k].present /\ evts[k].eventMode = "serial" },
         o \in OccurrenceIds }

\* a CalendarObject, as far as the multistatus shows it
CalendarObject(path, data) == [href |-> path, etag |-> md5(data), data |-> data]
NoObject == [href |-> <<>>, etag |-> NoEtag, data |-> NoIcal]

\* list_calendar_objects (and query_calendar_objects, which differs in its
\* window only): one object for every record of the occurrences listing
list_calendar_objects(evts, clock) ==
    { CalendarObject(ObjectPath(OccurrenceUid(r.key, r.occurrenceId)),
                     _inform_occurrence_to_ical(OccurrenceUid(r.key, r.occurrenceId),
                                                evts[r.key], clock)) :
         r \in get_calendar_events_occurrences(evts) }

\* path_str.rsplit("-", 1)
LastHyphen(stem) ==
    CHOOSE i \in 1..Len(stem) : stem[i] = "-" /\ \A j \in (i + 1)..Len(stem) : stem[j] # "-"
rsplit_hyphen(stem) ==
    [event_key |-> SubSeq(stem, 1, LastHyphen(stem) - 1),
     occurrence_id |-> SubSeq(stem, LastHyphen(stem) + 1, Len(stem))]

\* get_calendar_object: status 200 with the object, 404 for HTTPError(404),
\* 500 for any other exception that leaves the function
get_calendar_object(evts, path, answer, clock) ==
    LET parsed == _parse_object_path(path)
        stem == parsed.key
        failed(status) == [status |-> status, obj |-> NoObject]
    IN  IF ~parsed.ok THEN failed(404)
        ELSE IF HasHyphen(stem) /\ rsplit_hyphen(stem).occurrence_id # <<>>
        THEN LET event_key == rsplit_hyphen(stem).event_key
                 occurrence_id == rsplit_hyphen(stem).occurrence_id
                 found == { r \in get_calendar_events_occurrences(evts) :
                               r.key = event_key /\ <<r.occurrenceId>> = occurrence_id }
             IN  IF answer = "error" THEN failed(500)
                 ELSE IF found = {} THEN failed(404)
                 ELSE [status |-> 200,
                       obj |-> CalendarObject(path,
                                  _inform_occurrence_to_ical(stem, evts[event_key], clock))]
        ELSE LET event_key == IF HasHyphen(stem) THEN rsplit_hyphen(stem).event_key ELSE stem
             IN  IF answer = "error" \/ event_key \notin UpstreamKeys THEN failed(404)
                 ELSE IF ~evts[event_key].present THEN failed(404)
                 ELSE [status |-> 200,
                       obj |-> CalendarObject(path,
                                  _inform_occurrence_to_ical(event_key, evts[event_key], clock))]

\* the upstream call get_calendar_object makes for a path, if any
get_calendar_object_call(path) ==
    IF ~_parse_object_path(path).ok THEN <<>>
    ELSE IF HasHyphen(_parse_object_path(path).key) THEN <<"LIST">>
    ELSE <<"GET">>

\* Handler.handle has no CalDAV route for GET: the request falls through to
\* the filesystem handler
GetReceive ==
    /\ hpc = "idle"
    /\ \E path \in RequestPaths :
          /\ req' = [NoReq EXCEPT !.method = "GET", !.path = path]
          /\ resp' = Respond(head_get(path), NoHeader, <<>>)
    /\ hpc' = "responded"
    /\ hv' = HvInit
    /\ calls' = <<>>
    /\ dh' = DhInit
    /\ UNCHANGED <<events, last>>

\* the response elements of the home set and of the calendar
CollectionResponse(path) == [href |-> path, etag |-> NoEtag, data |-> NoIcal]

\* handle_caldav_propfind: the home set (with its calendar at Depth 1), the
\* calendar (with its objects at Depth 1; an exception ends the listing and
\* is swallowed), nothing for an object path; always a 207
handle_caldav_propfind(evts, path, depth, answer, clock) ==
    CASE detect_resource_type(path) = "home" ->
            {CollectionResponse(path)}
            \cup (IF depth = 1 THEN {CollectionResponse(CalendarPath)} ELSE {})
      [] detect_resource_type(path) = "calendar" ->
            IF path # CalendarPath THEN {}
            ELSE {CollectionResponse(path)}
                 \cup (IF depth = 1 /\ answer = "truthful"
                       THEN list_calendar_objects(evts, clock) ELSE {})
      [] OTHER -> {}

PropfindReceive ==
    /\ hpc = "idle"
    /\ \E path \in ReadPaths, depth \in {0, 1}, answer \in {"truthful", "error"} :
          LET listing == detect_resource_type(path) = "calendar" /\ depth = 1
          IN  /\ answer = "error" => listing
              /\ req' = [NoReq EXCEPT !.method = "PROPFIND", !.path = path, !.depth = depth]
              /\ resp' = [Respond(207, NoHeader, <<>>) EXCEPT
                             !.responses = handle_caldav_propfind(events, path, depth, answer, now)]
              /\ calls' = IF listing THEN <<"LIST">> ELSE <<>>
              /\ dh' = [DhInit EXCEPT !.fault = answer = "error"]
    /\ hpc' = "responded"
    /\ hv' = HvInit
    /\ UNCHANGED <<events, last>>

\* CalendarQuery is a dataclass whose two fields have no default: constructing
\* it without them raises TypeError
CalendarQueryFields == {"comp_request", "comp_filter"}
CalendarQuery(given) == [ok |-> CalendarQueryFields \subseteq given]

\* _handle_calendar_query builds CalendarQuery() outside its try; Handler.handle
\* answers the exception with 500. Past that line a failed query would give an
\* empty 207.
QueryReceive ==
    /\ hpc = "idle"
    /\ \E answer \in {"truthful", "error"} :
          LET cal_query == CalendarQuery({})
          IN  /\ answer = "error" => cal_query.ok
              /\ req' = [NoReq EXCEPT !.method = "REPORT_QUERY", !.path = CalendarPath]
              /\ IF ~cal_query.ok
                 THEN /\ resp' = Respond(500, NoHeader, <<>>)
                      /\ calls' = <<>>
                 ELSE /\ resp' = [Respond(207, NoHeader, <<>>) EXCEPT
                                     !.responses = IF answer = "truthful"
                                                   THEN list_calendar_objects(events, now)
                                                   ELSE {}]
                      /\ calls' = <<"LIST">>
              /\ dh' = [DhInit EXCEPT !.fault = answer = "error"]
    /\ hpc' = "responded"
    /\ hv' = HvInit
    /\ UNCHANGED <<events, last>>

\* hrefs a calendar-multiget asks for: an event path, an occurrence path, a
\* path nothing is stored at, and the calendar itself
MultigetPaths == { ObjectPath(<<"A">>), ObjectPath(<<"A", "-", "x">>),
                   ObjectPath(FreshStem), CalendarPath }
MaxHrefs == 2

\* the status of a calendar-multiget, given the status of each lookup
MultigetStatusStrict(results) ==
    IF \E h \in DOMAIN results : results[h].status # 200 THEN 404 ELSE 207

MultigetStatus(results) == 207

\* _handle_calendar_multiget: each href is looked up; a lookup that raises is
\* skipped (calls keeps the upstream calls, not their order)
MultigetReceive ==
    /\ hpc = "idle"
    /\ \E hrefs \in (SUBSET MultigetPaths) \ {{}} :
          /\ Cardinality(hrefs) <= MaxHrefs
          /\ \E answers \in [hrefs -> {"truthful", "error"}] :
                LET results == [h \in hrefs |-> get_calendar_object(events, h, answers[h], now)]
                    asked == { h \in hrefs : get_calendar_object_call(h) # <<>> }
                    gets == { h \in hrefs : get_calendar_object_call(h) = <<"GET">> }
                    lists == { h \in hrefs : get_calendar_object_call(h) = <<"LIST">> }
                IN  /\ \A h \in hrefs : answers[h] = "error" => h \in asked
                    /\ req' = [NoReq EXCEPT !.method = "REPORT_MULTIGET",
                                            !.path = CalendarPath, !.hrefs = hrefs]
                    /\ resp' = [Respond(MultigetStatus(results), NoHeader, <<>>) EXCEPT
                                   !.responses = { results[h].obj :
                                                      h \in { g \in hrefs : results[g].status = 200 } }]
                    /\ calls' = [i \in 1..Cardinality(gets) |-> "GET"]
                                 \o [i \in 1..Cardinality(lists) |-> "LIST"]
                    /\ dh' = [DhInit EXCEPT !.fault = \E h \in hrefs : answers[h] = "error"]
    /\ hpc' = "responded"
    /\ hv' = HvInit
    /\ UNCHANGED <<events, last>>

\* the response has been sent; the server takes the next request
NextRequest ==
    /\ hpc = "responded"
    /\ hpc' = "idle"
    /\ req' = NoReq
    /\ hv' = HvInit
    /\ resp' = NoResp
    /\ calls' = <<>>
    /\ dh' = DhInit
    /\ UNCHANGED <<events, last>>

(***************************************************************************)
(* The address-book backend's company-name memo                            *)
(* (py_webdav/carddav/inform_backend.py, InformCardDAVBackend)             *)
(***************************************************************************)
Requests == {"r1", "r2", "r3"}     \* requests that call _get_company_name
NoCompany == ""                    \* None
\* answers of GET /companies: the company names the upstream holds, in order
CompanyLists == { <<>>, <<"acme">>, <<"bolt", "acme">> }

VARIABLES
    company_name,       \* InformCardDAVBackend._company_name
    upstreamCompanies,  \* the companies the upstream holds now
    cpc,                \* position of each request inside _get_company_name
    got,                \* what _get_company_name returned to each request
    ch                  \* history of the memo (never read by the code)

cardVars == <<company_name, upstreamCompanies, cpc, got, ch>>

ChInit == [first |-> NoCompany, upstreamChanged |-> FALSE]

\* the test that guards the lookup
MemoIsUnset(memo) == memo = NoCompany

\* _get_company_name up to its await: the memo is returned when it is set
GetCompanyName(r) ==
    /\ cpc[r] = "idle"
    /\ IF MemoIsUnset(company_name)
       THEN /\ cpc' = [cpc EXCEPT ![r] = "get_companies"]
            /\ got' = got
       ELSE /\ cpc' = [cpc EXCEPT ![r] = "done"]
            /\ got' = [got EXCEPT ![r] = company_name]
    /\ UNCHANGED <<company_name, upstreamCompanies, ch>>

\* get_companies() returns or raises; the memo is assigned without a second
\* look at it
CompaniesResponse(r) ==
    /\ cpc[r] = "get_companies"
    /\ \/ /\ upstreamCompanies # <<>>
          /\ company_name' = upstreamCompanies[1]
          /\ got' = [got EXCEPT ![r] = upstreamCompanies[1]]
          /\ cpc' = [cpc EXCEPT ![r] = "done"]
          /\ ch' = [ch EXCEPT !.first = IF @ = NoCompany THEN upstreamCompanies[1] ELSE @]
       \/ \* no company (HTTPError 503) or a failed call: the exception propagates
          /\ cpc' = [cpc EXCEPT ![r] = "error"]
          /\ UNCHANGED <<company_name, got, ch>>
    /\ UNCHANGED upstreamCompanies

\* the request is over; the next one may come
CardReturn(r) ==
    /\ cpc[r] \in {"done", "error"}
    /\ cpc' = [cpc EXCEPT ![r] = "idle"]
    /\ got' = [got EXCEPT ![r] = NoCompany]
    /\ UNCHANGED <<company_name, upstreamCompanies, ch>>

\* the upstream's companies change (one is added, removed or renamed)
UpstreamChange ==
    /\ \E l \in CompanyLists \ {upstreamCompanies} : upstreamCompanies' = l
    /\ ch' = [ch EXCEPT !.upstreamChanged = TRUE]
    /\ UNCHANGED <<company_name, cpc, got>>

CardInit ==
    /\ company_name = NoCompany
    /\ upstreamCompanies = <<"acme">>
    /\ cpc = [r \in Requests |-> "idle"]
    /\ got = [r \in Requests |-> NoCompany]
    /\ ch = ChInit

(***************************************************************************)
(* Translation between INFORM events and iCalendar                         *)
(* (py_webdav/caldav/inform_backend.py): dates are days of 2026 and 2027,  *)
(* day 1 being Thursday 2026-01-01; times are seconds from midnight        *)
(***************************************************************************)
SecondsPerDay == 86400
SecondsPerHour == 3600
SecondsPerMinute == 60
LastDay == 730                     \* 2027-12-31
DstStartDay == 88                  \* 2026-03-29, 02:00 local -> 03:00
DstEndDay == 298                   \* 2026-10-25, 03:00 local -> 02:00
DstChangeSeconds == 10800          \* 03:00 local wall time

\* an instant or a wall time: a day and the seconds from its midnight
DateTime(day, sec) == [day |-> day, sec |-> sec]
NoDateTime == [day |-> 0, sec |-> 0]
FromSeconds(total) == DateTime(total \div SecondsPerDay, total % SecondsPerDay)

\* ZoneInfo(server_timezone).utcoffset of a local wall time in 2026 (fold 0:
\* a skipped hour takes the offset before the change, a repeated one the
\* first), for Europe/Berlin, and a zone without daylight saving time
fixed_utcoffset(zone, day, sec) == SecondsPerHour

utcoffset(zone, day, sec) ==
    IF zone = "UTC" THEN 0
    ELSE IF /\ day > DstStartDay \/ (day = DstStartDay /\ sec >= DstChangeSeconds)
            /\ day < DstEndDay \/ (day = DstEndDay /\ sec < DstChangeSeconds)
         THEN 2 * SecondsPerHour
         ELSE SecondsPerHour

ServerTimezone == "Europe/Berlin"  \* config.server_timezone

\* InformCalDAVBackend._occurrence_time_to_utc
_occurrence_time_to_utc(date, seconds_from_midnight) ==
    LET hours == seconds_from_midnight \div SecondsPerHour
        minutes == (seconds_from_midnight % SecondsPerHour) \div SecondsPerMinute
        seconds == seconds_from_midnight % SecondsPerMinute
        local == hours * SecondsPerHour + minutes * SecondsPerMinute + seconds
    IN  FromSeconds(date * SecondsPerDay + local - utcoffset(ServerTimezone, date, local))

\* the calendar: neither 2026 nor 2027 is a leap year
DaysPerYear == 365
DaysPerWeek == 7
NearDays == 31                     \* days searched first for a recurrence
DaysBeforeMonth == <<0, 31, 59, 90, 120, 151, 181, 212, 243, 273, 304, 334, 365>>
DayOfYear(d) == ((d - 1) % DaysPerYear) + 1
MonthOf(d) == CHOOSE m \in 1..12 :
                 DaysBeforeMonth[m] < DayOfYear(d) /\ DayOfYear(d) <= DaysBeforeMonth[m + 1]
DayOfMonth(d) == DayOfYear(d) - DaysBeforeMonth[MonthOf(d)]
MonthIndex(d) == 12 * ((d - 1) \div DaysPerYear) + MonthOf(d)
WeekIndex(d) == (d + 2) \div DaysPerWeek          \* weeks start on Monday
WeekdayOf(d) == ((d + 2) % DaysPerWeek) + 1       \* 1 is Monday

\* day_map of the translations, in both directions
WeekdayNames == <<"monday", "tuesday", "wednesday", "thursday", "friday", "saturday", "sunday">>
DayCodes == <<"MO", "TU", "WE", "TH", "FR", "SA", "SU">>
day_map(name) == DayCodes[CHOOSE i \in 1..DaysPerWeek : WeekdayNames[i] = name]
day_name(code) == WeekdayNames[CHOOSE i \in 1..DaysPerWeek : DayCodes[i] = code]
BusinessDays == {"MO", "TU", "WE", "TH", "FR"}

\* a seriesSchema of the upstream: schemaType, the regularity of its schema
\* data and the fields of that variant (0, "" and {} where it has none)
Schema(schemaType, regularity, interval, weekdays, weekday, weekNumber, dayOfMonth, monthOfYear) ==
    [schemaType |-> schemaType, regularity |-> regularity, interval |-> interval,
     weekdays |-> weekdays, weekday |-> weekday, weekNumber |-> weekNumber,
     dayOfMonth |-> dayOfMonth, monthOfYear |-> monthOfYear]
NoSchema == Schema("none", "", 0, {}, "", 0, 0, 0)
Arrhythmic == Schema("arrhythmic", "", 0, {}, "", 0, 0, 0)
AllBusinessDays == Schema("daily", "allBusinessDays", 0, {}, "", 0, 0, 0)
DailyInterval(n) == Schema("daily", "interval", n, {}, "", 0, 0, 0)
Weekly(weekdays, n) == Schema("weekly", "", n, weekdays, "", 0, 0, 0)
MonthlyDate(day, n) == Schema("monthly", "specificDate", n, {}, "", 0, day, 0)
MonthlyDay(weekday, week_number, n) == Schema("monthly", "specificDay", n, {}, weekday, week_number, 0, 0)
YearlyDate(month, day) == Schema("yearly", "specificDate", 0, {}, "", 0, day, month)
YearlyDay(month, weekday, week_number) == Schema("yearly", "specificDay", 0, {}, weekday, week_number, 0, month)

\* a recurrence rule as the parser reads it: INTERVAL is 1 when the text has
\* none; BYDAY is a set of day codes, nth the number in front of its one code
Rrule(freq, interval, byday, nth, bymonthday, bymonth) ==
    [freq |-> freq, interval |-> interval, byday |-> byday, nth |-> nth,
     bymonthday |-> bymonthday, bymonth |-> bymonth]
NoRrule == Rrule("none", 0, {}, 0, 0, 0)

\* InformCalDAVBackend._inform_series_schema_to_rrule
_inform_series_schema_to_rrule(series_schema) ==
    LET t == series_schema.schemaType
        r == series_schema.regularity
    IN  IF t = "daily" /\ r = "allBusinessDays"
            THEN Rrule("WEEKLY", 1, BusinessDays, 0, 0, 0)
        ELSE IF t = "daily" /\ r = "interval"
            THEN Rrule("DAILY", series_schema.interval, {}, 0, 0, 0)
        ELSE IF t = "weekly"
            THEN Rrule("WEEKLY", series_schema.interval,
                       {day_map(d) : d \in series_schema.weekdays}, 0, 0, 0)
        ELSE IF t = "monthly" /\ r = "specificDate"
            THEN Rrule("MONTHLY", series_schema.interval, {}, 0, series_schema.dayOfMonth, 0)
        ELSE IF t = "monthly" /\ r = "specificDay"
            THEN Rrule("MONTHLY", series_schema.interval, {day_map(series_schema.weekday)},
                       series_schema.weekNumber, 0, 0)
        ELSE IF t = "yearly" /\ r = "specificDate"
            THEN Rrule("YEARLY", 1, {}, 0, series_schema.dayOfMonth, series_schema.monthOfYear)
        ELSE IF t = "yearly" /\ r = "specificDay"
            THEN Rrule("YEARLY", 1, {day_map(series_schema.weekday)},
                       series_schema.weekNumber, 0, series_schema.monthOfYear)
        ELSE NoRrule

\* dateutil's recurrence set of "DTSTART:<start>\nRRULE:<rrule>", by day: the
\* instances keep the time of day of DTSTART
Recurs(d, start, rrule) ==
    /\ d >= start
    /\ rrule.freq = "DAILY" => (d - start) % rrule.interval = 0
    /\ rrule.freq = "WEEKLY" => (WeekIndex(d) - WeekIndex(start)) % rrule.interval = 0
    /\ rrule.freq = "MONTHLY" => (MonthIndex(d) - MonthIndex(start)) % rrule.interval = 0
    /\ rrule.bymonth # 0 => MonthOf(d) = rrule.bymonth
    /\ rrule.bymonthday # 0 => DayOfMonth(d) = rrule.bymonthday
    /\ rrule.byday # {} => DayCodes[WeekdayOf(d)] \in rrule.byday
    /\ rrule.nth # 0 => ((DayOfMonth(d) - 1) \div DaysPerWeek) + 1 = rrule.nth

Earliest(days) == CHOOSE d \in days : \A e \in days : d <= e

\* the earliest day of the recurrence set: looked for in the month after the
\* start first, then up to the last day
FirstRecurrence(start, rrule) ==
    LET near == {d \in start..(start + NearDays) : Recurs(d, start, rrule)}
    IN  IF near # {} THEN Earliest(near)
        ELSE LET far == {d \in start..LastDay : Recurs(d, start, rrule)}
             IN  IF far # {} THEN Earliest(far) ELSE start

\* the series start is emitted unchanged
series_start_unchanged(series_start_dt, rrule) == series_start_dt

\* InformCalDAVBackend._calculate_first_occurrence: rule[0], or the series
\* start when the rule has no instance
_calculate_first_occurrence(series_start_dt, rrule) ==
    DateTime(FirstRecurrence(series_start_dt.day, rrule),
             series_start_dt.sec)

\* a serial event of the upstream, as far as the translations read it
SeriesEvent(subject, date, start, end, whole_day, schema) ==
    [eventMode |-> "serial", subject |-> subject, seriesStartDate |-> date,
     occurrenceStartTime |-> start, occurrenceEndTime |-> end,
     wholeDayEvent |-> whole_day, seriesSchema |-> schema]
NoSeriesEvent ==
    [eventMode |-> "none", subject |-> "", seriesStartDate |-> 0,
     occurrenceStartTime |-> 0, occurrenceEndTime |-> 0,
     wholeDayEvent |-> FALSE, seriesSchema |-> NoSchema]

\* the VEVENT of a series, as far as the translations write and read it:
\* DTSTART and DTEND are dates (is_date) or UTC instants
SeriesIcal(summary, is_date, dtstart, dtend, rrule) ==
    [summary |-> summary, is_date |-> is_date, dtstart |-> dtstart,
     dtend |-> dtend, rrule |-> rrule]
NoSeriesIcal == SeriesIcal("", FALSE, NoDateTime, NoDateTime, NoRrule)

Plus(dt, seconds) == FromSeconds(dt.day * SecondsPerDay + dt.sec + seconds)
Minus(a, b) == (a.day * SecondsPerDay + a.sec) - (b.day * SecondsPerDay + b.sec)

\* InformCalDAVBackend._inform_event_to_ical, the branch of a serial event
_inform_event_to_ical(event_data) ==
    LET rrule == _inform_series_schema_to_rrule(event_data.seriesSchema)
        date == event_data.seriesStartDate
    IN  IF event_data.wholeDayEvent
        THEN LET series_start_dt == DateTime(date, 0)
                 first_occ_dt == IF rrule # NoRrule
                                 THEN _calculate_first_occurrence(series_start_dt, rrule)
                                 ELSE series_start_dt
                 first_date == DateTime(first_occ_dt.day, 0)
             IN  SeriesIcal(event_data.subject, TRUE, first_date, first_date, rrule)
        ELSE LET start_dt == _occurrence_time_to_utc(date, event_data.occurrenceStartTime)
                 end_dt == _occurrence_time_to_utc(date, event_data.occurrenceEndTime)
                 first_occ_dt == IF rrule # NoRrule
                                 THEN _calculate_first_occurrence(start_dt, rrule)
                                 ELSE start_dt
             IN  SeriesIcal(event_data.subject, FALSE, first_occ_dt,
                            Plus(first_occ_dt, Minus(end_dt, start_dt)), rrule)

\* InformCalDAVBackend._rrule_to_inform_series_schema
_rrule_to_inform_series_schema(rrule) ==
    LET weekday == day_name(CHOOSE c \in rrule.byday : TRUE)
        week_number == IF rrule.nth # 0 THEN rrule.nth ELSE 1
        month == IF rrule.bymonth # 0 THEN rrule.bymonth ELSE 1
    IN  IF rrule.freq = "DAILY"
            THEN IF rrule.byday = BusinessDays /\ rrule.nth = 0
                 THEN AllBusinessDays
                 ELSE DailyInterval(rrule.interval)
        ELSE IF rrule.freq = "WEEKLY"
            THEN Weekly({day_name(c) : c \in rrule.byday}, rrule.interval)
        ELSE IF rrule.freq = "MONTHLY" /\ rrule.bymonthday # 0
            THEN MonthlyDate(rrule.bymonthday, rrule.interval)
        ELSE IF rrule.freq = "MONTHLY" /\ rrule.byday # {}
            THEN MonthlyDay(weekday, week_number, rrule.interval)
        ELSE IF rrule.freq = "YEARLY" /\ rrule.bymonthday # 0
            THEN YearlyDate(month, rrule.bymonthday)
        ELSE IF rrule.freq = "YEARLY" /\ rrule.byday # {}
            THEN YearlyDay(month, weekday, week_number)
        ELSE DailyInterval(1)

\* dtstart.hour * 3600 + dtstart.minute * 60
HourAndMinute(sec) ==
    (sec \div SecondsPerHour) * SecondsPerHour
       + ((sec % SecondsPerHour) \div SecondsPerMinute) * SecondsPerMinute

EndOfDay == 86340

\* InformCalDAVBackend._ical_to_inform_event, the branch of a VEVENT with an
\* RRULE; without one the event is a single event
_ical_to_inform_series(ical) ==
    IF ical.rrule = NoRrule
    THEN [NoSeriesEvent EXCEPT !.eventMode = "single", !.subject = ical.summary,
                               !.wholeDayEvent = ical.is_date]
    ELSE SeriesEvent(ical.summary,
                     ical.dtstart.day,
                     IF ical.is_date THEN 0 ELSE HourAndMinute(ical.dtstart.sec),
                     IF ical.is_date THEN EndOfDay ELSE HourAndMinute(ical.dtend.sec),
                     ical.is_date,
                     _rrule_to_inform_series_schema(ical.rrule))

\* dates and times of day the translations are applied to
SeriesDates == {10, 12, 88, 191, 298}       \* Sat Jan 10, Mon Jan 12, Mar 29, Jul 10, Oct 25
TimesOfDay == {0, 1800, 9000, 50400, 50430, 57600, 86340}
OccurrenceSeconds == 3600                  \* an occurrence lasts an hour
SeriesSubjects == {"", "s1"}
Schemas ==
    {AllBusinessDays, DailyInterval(1), DailyInterval(2),
     Weekly({"monday", "wednesday"}, 1), Weekly({"saturday"}, 2), Weekly({"friday"}, 2),
     MonthlyDate(15, 1), MonthlyDate(31, 2), MonthlyDay("monday", 2, 1),
     YearlyDate(6, 15), YearlyDay(2, "tuesday", 1), Arrhythmic}
ClientRrules ==
    {Rrule("DAILY", 1, {}, 0, 0, 0), Rrule("DAILY", 1, BusinessDays, 0, 0, 0),
     Rrule("WEEKLY", 1, BusinessDays, 0, 0, 0), Rrule("MONTHLY", 1, {}, 0, 15, 0)}
ClientStarts == {DateTime(d, t) : d \in {12, 191}, t \in {0, 46800, 46830, 82800}}

VARIABLES
    xlOp,       \* the translation applied last
    xlTime,     \* its input, when it is a local date and time
    xlUtc,      \* its output, when it is a UTC instant
    xlEvent,    \* its input, when it is an event of the upstream
    xlIcal,     \* the VEVENT it wrote or read
    xlOut       \* its output, when it is an event for the upstream

xlVars == <<xlOp, xlTime, xlUtc, xlEvent, xlIcal, xlOut>>

XlInit ==
    /\ xlOp = "none"
    /\ xlTime = NoDateTime
    /\ xlUtc = NoDateTime
    /\ xlEvent = NoSeriesEvent
    /\ xlIcal = NoSeriesIcal
    /\ xlOut = NoSeriesEvent

\* The translations keep no state: each behaviour applies one of them to one
\* input.
\* an occurrence time of the upstream is converted
OccurrenceTimeToUtc ==
    /\ xlOp = "none"
    /\ \E date \in SeriesDates, sec \in TimesOfDay :
          /\ xlTime' = DateTime(date, sec)
          /\ xlUtc' = _occurrence_time_to_utc(date, sec)
    /\ xlOp' = "_occurrence_time_to_utc"
    /\ UNCHANGED <<xlEvent, xlIcal, xlOut>>

UpstreamSeriesEvents ==
    {SeriesEvent(subject, date, start, (start + OccurrenceSeconds) % SecondsPerDay,
                 whole_day, schema) :
        subject \in SeriesSubjects, date \in SeriesDates, start \in TimesOfDay,
        whole_day \in BOOLEAN, schema \in Schemas}

\* a serial event of the upstream is translated to iCalendar
Outbound ==
    /\ xlOp = "none"
    /\ \E event_data \in UpstreamSeriesEvents :
          /\ xlEvent' = event_data
          /\ xlIcal' = _inform_event_to_ical(event_data)
    /\ xlOp' = "_inform_event_to_ical"
    /\ xlOut' = NoSeriesEvent
    /\ UNCHANGED <<xlTime, xlUtc>>

\* a VEVENT sent by a client is translated to an event for the upstream
Inbound ==
    /\ xlOp = "none"
    /\ \E summary \in SeriesSubjects, is_date \in BOOLEAN, dtstart \in ClientStarts,
          rrule \in ClientRrules \cup {NoRrule} :
          LET start == IF is_date THEN DateTime(dtstart.day, 0) ELSE dtstart
              ical == SeriesIcal(summary, is_date, start,
                                 IF is_date THEN start ELSE Plus(start, OccurrenceSeconds),
                                 rrule)
          IN  /\ xlIcal' = ical
              /\ xlOut' = _ical_to_inform_series(ical)
    /\ xlOp' = "_ical_to_inform_event"
    /\ xlEvent' = NoSeriesEvent
    /\ UNCHANGED <<xlTime, xlUtc>>

\* a serial event of the upstream is translated to iCalendar and back
RoundTrip ==
    /\ xlOp = "none"
    /\ \E event_data \in UpstreamSeriesEvents :
          /\ xlEvent' = event_data
          /\ xlIcal' = _inform_event_to_ical(event_data)
          /\ xlOut' = _ical_to_inform_series(_inform_event_to_ical(event_data))
    /\ xlOp' = "round_trip"
    /\ UNCHANGED <<xlTime, xlUtc>>

DavInit ==
    /\ events \in [UpstreamKeys -> {NoEvent} \cup {UpstreamEvent(s) : s \in Subjects}
                                            \cup {UpstreamSeries(s) : s \in Subjects}]
    /\ last = NoLast
    /\ req = NoReq
    /\ hpc = "idle"
    /\ hv = HvInit
    /\ resp = NoResp
    /\ calls = <<>>
    /\ dh = DhInit

TokenInit ==
    /\ now = 0
    /\ tokens = NoTokens
    /\ lockHolder = NoHolder
    /\ lockWaiters = <<>>
    /\ pc = [p \in Callers |-> "idle"]
    /\ tok = [p \in Callers |-> 0]
    /\ minted = 0
    /\ callsStarted = 0
    /\ hist = HistInit

vars == <<tokenVars, davVars, cardVars, xlVars>>

Init == TokenInit /\ DavInit /\ CardInit /\ XlInit

NextToken ==
    \/ \E p \in Callers : Start(p) /\ UNCHANGED <<davVars, cardVars, xlVars>>
    \/ \E p \in Callers : Wake(p) /\ UNCHANGED <<davVars, cardVars, xlVars>>
    \/ \E p \in Callers : RefreshResponse(p) /\ UNCHANGED <<davVars, cardVars, xlVars>>
    \/ \E p \in Callers : PasswordResponse(p) /\ UNCHANGED <<davVars, cardVars, xlVars>>
    \/ \E p \in Callers : ApiResponse(p) /\ UNCHANGED <<davVars, cardVars, xlVars>>
    \/ \E p \in Callers : Return(p) /\ UNCHANGED <<davVars, cardVars, xlVars>>
    \/ Tick /\ UNCHANGED <<davVars, cardVars, xlVars>>

\* the token lifecycle does not read the upstream's events: start without any
InitToken == Init /\ events = [k \in UpstreamKeys |-> NoEvent]

SpecToken == InitToken /\ [][NextToken]_vars

NextDav ==
    \/ PutReceive /\ UNCHANGED <<tokenVars, cardVars, xlVars>>
    \/ PutProbeResponse /\ UNCHANGED <<tokenVars, cardVars, xlVars>>
    \/ PutPatchResponse /\ UNCHANGED <<tokenVars, cardVars, xlVars>>
    \/ PutPostResponse /\ UNCHANGED <<tokenVars, cardVars, xlVars>>
    \/ PutReadbackResponse /\ UNCHANGED <<tokenVars, cardVars, xlVars>>
    \/ DeleteReceive /\ UNCHANGED <<tokenVars, cardVars, xlVars>>
    \/ DeleteResponse /\ UNCHANGED <<tokenVars, cardVars, xlVars>>
    \/ GetReceive /\ UNCHANGED <<tokenVars, cardVars, xlVars>>
    \/ PropfindReceive /\ UNCHANGED <<tokenVars, cardVars, xlVars>>
    \/ QueryReceive /\ UNCHANGED <<tokenVars, cardVars, xlVars>>
    \/ MultigetReceive /\ UNCHANGED <<tokenVars, cardVars, xlVars>>
    \/ NextRequest /\ UNCHANGED <<tokenVars, cardVars, xlVars>>
    \/ Tick /\ UNCHANGED <<davVars, cardVars, xlVars>>

SpecDav == Init /\ [][NextDav]_vars

NextCard ==
    \/ \E r \in Requests : GetCompanyName(r) /\ UNCHANGED <<tokenVars, davVars, xlVars>>
    \/ \E r \in Requests : CompaniesResponse(r) /\ UNCHANGED <<tokenVars, davVars, xlVars>>
    \/ \E r \in Requests : CardReturn(r) /\ UNCHANGED <<tokenVars, davVars, xlVars>>
    \/ UpstreamChange /\ UNCHANGED <<tokenVars, davVars, xlVars>>

\* the memo reads neither the tokens nor the calendar: start without events
SpecCard == InitToken /\ [][NextCard]_vars

NextTranslate ==
    \/ OccurrenceTimeToUtc /\ UNCHANGED <<tokenVars, davVars, cardVars>>
    \/ Outbound /\ UNCHANGED <<tokenVars, davVars, cardVars>>
    \/ Inbound /\ UNCHANGED <<tokenVars, davVars, cardVars>>
    \/ RoundTrip /\ UNCHANGED <<tokenVars, davVars, cardVars>>

\* the translations are pure functions of their input
SpecTranslate == InitToken /\ [][NextTranslate]_vars

TypeOKToken ==
    /\ now \in 0..MaxNow
    /\ lockHolder \in Callers \cup {NoHolder}
    /\ minted \in TokenIds

(***************************************************************************)
(* Properties of the token lifecycle (checked under SpecToken)             *)
(***************************************************************************)
Sending(p) == pc[p] \in {"api", "done", "api_error"}

\* C1: concurrent calls that meet an expired token coalesce on one refresh: for
\* every stored token set at most one POST /token with grantType=refreshToken
\* is in flight or answered successfully (a further one is issued only after an
\* earlier one failed), and every call that started on a stale token sends its
\* API request with a token newer than the stale one.
C1_SingleRefresh ==
    /\ \A g \in TokenIds : hist.refreshIssued[g] <= 1 + hist.refreshFailed[g]
    /\ \A p \in Callers :
          Sending(p) /\ hist.startStale[p] => tok[p] > hist.startTok[p]

\* two overlapping calls started on the same stale token set; one refresh was
\* posted, it succeeded, and both calls sent their request with its token
C1_Witness ==
    \E p, q \in Callers :
       /\ p # q
       /\ hist.startStale[p] /\ hist.startStale[q]
       /\ hist.startTok[p] = hist.startTok[q]
       /\ hist.waited[q]
       /\ hist.refreshOutcome[p] = "ok"
       /\ hist.refreshIssued[hist.startTok[p]] = 1
       /\ hist.refreshFailed[hist.startTok[p]] = 0
       /\ Sending(p) /\ Sending(q)
       /\ tok[p] = tok[q] /\ tok[p] = tokens.access_token
       /\ tokens.grant = "refreshToken"

\* C2: when the refresh of a stale token set fails, at most one password grant
\* for that token set is in flight or answered successfully, and a call whose
\* refresh failed sends its API request with a token a password grant returned.
C2_SinglePasswordFallback ==
    /\ \A g \in TokenIds : hist.passwordIssued[g] <= 1 + hist.passwordFailed[g]
    /\ \A g \in TokenIds : g # 0 => hist.passwordIssued[g] <= hist.refreshFailed[g]
    /\ \A p \in Callers :
          Sending(p) /\ hist.refreshOutcome[p] = "fail" =>
             /\ hist.grantOf[tok[p]] = "password"
             /\ tok[p] > hist.checkedTok[p]

\* two overlapping calls on the same stale token set; the refresh failed, one
\* password grant followed, and both calls sent their request with its token
C2_Witness ==
    \E p, q \in Callers :
       /\ p # q
       /\ hist.startStale[p] /\ hist.startStale[q]
       /\ hist.startTok[p] = hist.startTok[q]
       /\ hist.waited[q]
       /\ hist.refreshOutcome[p] = "fail" /\ hist.passwordOutcome[p] = "ok"
       /\ hist.refreshIssued[hist.startTok[p]] = 1
       /\ hist.passwordIssued[hist.startTok[p]] = 1
       /\ Sending(p) /\ Sending(q)
       /\ tok[p] = tok[q] /\ tok[p] = tokens.access_token
       /\ tokens.grant = "password"

\* C3 as stated: the token mutex is never held by a caller whose outbound HTTP
\* request (POST /token included) is in flight.
C3_NeverHeldAcrossHttp ==
    \A p \in Callers :
       lockHolder = p => pc[p] \notin {"refresh_post", "password_post", "api"}

\* C3 amended: a caller never holds the token mutex while its API request is in
\* flight; it holds it for the expiry check, the POST /token grant(s) and the swap.
C3_NotHeldAcrossApiRequest ==
    \A p \in Callers :
       /\ pc[p] \in {"api", "done", "api_error", "token_error", "idle"} => lockHolder # p
       /\ lockHolder = p => pc[p] \in {"refresh_post", "password_post"}

\* a caller refreshed under the lock and now has its API request in flight
\* while the other caller holds the lock for its own grant
C3_Witness ==
    \E p, q \in Callers :
       /\ pc[p] = "api" /\ hist.refreshOutcome[p] = "ok"
       /\ lockHolder = q /\ pc[q] \in {"refresh_post", "password_post"}

\* C4: a failed refresh grant is followed by a password grant; the call goes on
\* with the password grant's token, and a token error reaches the caller only
\* when the password grant failed.
C4_PasswordFallback ==
    \A p \in Callers :
       /\ pc[p] = "token_error" => hist.passwordOutcome[p] = "fail"
       /\ hist.refreshOutcome[p] = "fail" /\ hist.passwordOutcome[p] = "none"
             => pc[p] = "password_post"
       /\ hist.refreshOutcome[p] = "fail" /\ hist.passwordOutcome[p] = "ok"
             => hist.grantOf[tok[p]] = "password" /\ pc[p] \in {"api", "done", "api_error", "idle"}

\* a call whose refresh failed has its API request in flight with the token of
\* its password grant
C4_Witness ==
    \E p \in Callers :
       /\ pc[p] = "api"
       /\ hist.refreshOutcome[p] = "fail" /\ hist.passwordOutcome[p] = "ok"
       /\ tok[p] = tokens.access_token /\ tokens.grant = "password"

\* C5: an API request is sent only after the expiry check (now >= expiresAt - 60 s)
\* was made under the mutex, with the mutex released at the moment it is sent,
\* and never with the token the check found stale.
C5_CheckedBeforeSend ==
    \A p \in Callers :
       Sending(p) =>
          /\ hist.checked[p]
          /\ hist.lockAtSend[p] # p
          /\ (pc[p] = "api" => lockHolder # p)
          /\ (hist.checkedStale[p] => tok[p] # hist.checkedTok[p])

\* a call found the stored token stale, replaced it and has its request in flight
C5_Witness ==
    \E p \in Callers :
       /\ pc[p] = "api"
       /\ hist.checked[p] /\ hist.checkedStale[p]
       /\ tok[p] # hist.checkedTok[p]
       /\ lockHolder = NoHolder

(***************************************************************************)
(* Properties of CalDAV object PUT / DELETE (checked under SpecDav)        *)
(***************************************************************************)
ReqKey == _parse_object_path(req.path).key
Responded(method) == hpc = "responded" /\ req.method = method
Successful == resp.status \in 200..299

C7_UuidStemCreates ==
    Responded("PUT") /\ HasHyphen(ReqKey) /\ ReqKey \notin OccurrenceStems
       /\ req.body.valid /\ req.if_match = NoHeader =>
          /\ resp.status # 405
          /\ (~dh.fault => dh.created)

\* C8: a PUT with If-None-Match: * (and no If-Match) is answered 412 when the
\* event of the path exists, and creates the event and is answered 201 when the
\* path is fresh; the body is valid and the upstream answers every call.
C8_IfNoneMatch ==
    Responded("PUT") /\ req.if_none_match = StarHeader /\ req.if_match = NoHeader
       /\ _parse_object_path(req.path).ok /\ ReqKey \notin OccurrenceStems
       /\ req.body.valid /\ ~dh.fault =>
          IF dh.existed
          THEN resp.status = 412 /\ ~dh.created /\ ~dh.updated
          ELSE resp.status = 201 /\ dh.created

\* C9: a PUT with If-Match: "<etag>" on an existing event is answered 412 without
\* a write when <etag>, quotes stripped, differs from the resource's current
\* ETag, and 204 when it is equal; the body is valid and the upstream answers.
C9_IfMatch ==
    Responded("PUT") /\ req.if_match.kind = "quoted" /\ req.if_none_match = NoHeader
       /\ dh.existed /\ req.body.valid /\ ~dh.fault =>
          IF StripQuotes(req.if_match) # dh.etagAtStart
          THEN resp.status = 412 /\ ~dh.updated /\ ~dh.created
          ELSE resp.status = 204

\* C10: a successful PUT is answered 201 when it created an upstream event and
\* 204 when it updated one, whatever the conditional headers, and carries the
\* new ETag.
C10_StatusByOutcome ==
    Responded("PUT") /\ Successful =>
       /\ (dh.created => resp.status = 201)
       /\ (dh.updated => resp.status = 204)
       /\ resp.etag.kind = "quoted"

(***************************************************************************)
(* Properties of created resources, listings and reads (under SpecDav)     *)
(***************************************************************************)
\* the object paths a Depth: 1 PROPFIND lists now, and the path the last PUT
\* gave its resource
ListedPaths == { o.href : o \in list_calendar_objects(events, now) }
ReturnedPaths == ListedPaths \cup (IF last.op = "PUT" THEN {last.path} ELSE {})

\* the paths an object of the upstream is stored under: <key>.ics for every
\* event, <key>-<occurrenceId>.ics for the occurrences of a series
StoredPaths ==
    { ObjectPath(k) : k \in { k \in UpstreamKeys : Exists(k) } }
    \cup { ObjectPath(OccurrenceUid(k, o)) :
              k \in { k \in UpstreamKeys : Exists(k) /\ events[k].eventMode = "serial" },
              o \in OccurrenceIds }

\* the event key a listed path belongs to
KeyOfPath(path) ==
    LET stem == _parse_object_path(path).key
    IN  IF HasHyphen(stem) THEN rsplit_hyphen(stem).event_key ELSE stem

ObjectResponses == { r \in resp.responses : detect_resource_type(r.href) = "object" }
ResponseHrefs == { r.href : r \in resp.responses }

\* C11: a PUT that created an event, to which the upstream gave the key K, and
\* that is answered 201 has relocated the resource to <calendar>/K.ics and
\* carries a Location header naming <calendar>/K.ics.
C11_LocationOnCreate ==
    Responded("PUT") /\ dh.created /\ resp.status = 201 =>
       /\ resp.path = ObjectPath(hv.event_key)
       /\ resp.location = ObjectPath(hv.event_key)

\* C12: an HTTP GET at an object path the server returns (listed by PROPFIND,
\* or given to a newly created resource) is answered 200 with a body whose UID
\* is the stem of the path.
C12_GetReturnedPath ==
    Responded("GET") /\ req.path \in ReturnedPaths =>
       /\ resp.status = 200
       /\ resp.data.uid = ReqKey

\* C13: a Depth: 1 PROPFIND on the calendar, the upstream answering, returns
\* exactly one object response for every upstream event key, and the response
\* of a series carries an RRULE.
C13_OneResponsePerKey ==
    Responded("PROPFIND") /\ req.path = CalendarPath /\ req.depth = 1 /\ ~dh.fault =>
       /\ \A k \in UpstreamKeys :
             Cardinality({ r \in ObjectResponses : KeyOfPath(r.href) = k })
                = IF Exists(k) THEN 1 ELSE 0
       /\ \A r \in ObjectResponses :
             events[KeyOfPath(r.href)].eventMode = "serial" => r.data.rrule

\* C14: the ETag a PUT returned equals the ETag a following GET or PROPFIND
\* computes for that resource, as long as no write came in between.
C14_EtagDeterministic ==
    last.op = "PUT" =>
       /\ get_calendar_object(events, last.path, "truthful", now).obj.etag = last.etag
       /\ (Responded("PROPFIND") =>
              \A r \in resp.responses : r.href = last.path => r.etag = last.etag)

\* C15: a PUT of a body with an RRULE at a hyphen-free path whose preconditions
\* are met succeeds when the upstream answers, and the calendar object
\* returned for it carries an RRULE.
C15_RecurringPut ==
    Responded("PUT") /\ req.body.valid /\ req.body.rrule
       /\ _parse_object_path(req.path).ok /\ ~HasHyphen(ReqKey)
       /\ req.if_match = NoHeader /\ (req.if_none_match = StarHeader => ~dh.existed)
       /\ ~dh.fault =>
          /\ Successful
          /\ resp.data.rrule

\* C16: once a DELETE of an event has succeeded, and until the next write
\* request, a GET of the same path yields 404: the backend's lookup of the
\* path raises 404 whatever the upstream's state of health, an HTTP GET is
\* answered 404, and a calendar-multiget has no response for the path.
C16_GetAfterDelete ==
    last.op = "DELETE" =>
       /\ \A answer \in {"truthful", "error"} :
             get_calendar_object(events, last.path, answer, now).status = 404
       /\ (Responded("GET") /\ req.path = last.path => resp.status = 404)
       /\ (Responded("REPORT_MULTIGET") => last.path \notin ResponseHrefs)

\* a DELETE succeeded and the next request, a calendar-multiget that asks for
\* the deleted path, was answered without a response for it
C16_Witness ==
    /\ last.op = "DELETE"
    /\ Responded("REPORT_MULTIGET")
    /\ last.path \in req.hrefs
    /\ ~dh.fault
    /\ last.path \notin ResponseHrefs

\* C17: a PUT or DELETE that an upstream failure ended is answered by the kind
\* of the failure (404, 400/422, 502/504, 500), and a DELETE is answered 404
\* only when the upstream reported not-found.
C17_ErrorByKind ==
    /\ hpc = "responded" /\ req.method \in {"PUT", "DELETE"} /\ dh.kind # "none" =>
          resp.status \in CASE dh.kind = "not_found" -> {404}
                            [] dh.kind = "bad_request" -> {400, 422}
                            [] dh.kind \in {"server", "network"} -> {502, 504}
                            [] OTHER -> {500}
    /\ Responded("DELETE") /\ resp.status = 404 /\ calls # <<>> =>
          dh.kind = "not_found"

\* C18: a PUT whose body names METHOD or does not hold exactly one VEVENT is
\* rejected with a 4xx status, and no upstream create or update is issued for it.
C18_InvalidBodyRejected ==
    req.method = "PUT" /\ (req.body.method \/ req.body.vevents # 1) =>
       /\ \A i \in 1..Len(calls) : calls[i] \notin {"POST", "PATCH"}
       /\ ~dh.created /\ ~dh.updated
       /\ (hpc = "responded" => resp.status \in 400..499)

\* C19: a calendar-query REPORT on the calendar is answered 207, and with the
\* upstream answering the multistatus has one response for each object of the
\* default window.
C19_CalendarQuery ==
    Responded("REPORT_QUERY") =>
       /\ resp.status = 207
       /\ (~dh.fault => ResponseHrefs = ListedPaths)

\* C20: a calendar-multiget REPORT is answered 207 whatever its hrefs; every
\* response is for a requested href that exists, and with the upstream
\* answering every requested href that exists has a response.
C20_MultigetOmitsMissing ==
    Responded("REPORT_MULTIGET") =>
       /\ resp.status = 207
       /\ ResponseHrefs \subseteq req.hrefs \cap StoredPaths
       /\ (~dh.fault => ResponseHrefs = req.hrefs \cap StoredPaths)

\* a calendar-multiget asked for an href that exists and one that does not and
\* was answered 207 with a response for the first only
C20_Witness ==
    /\ Responded("REPORT_MULTIGET")
    /\ ~dh.fault
    /\ \E h, g \in req.hrefs : h \in StoredPaths /\ g \notin StoredPaths
    /\ resp.status = 207
    /\ ResponseHrefs = req.hrefs \cap StoredPaths

\* the resource a PROPFIND addresses exists: the home set, the calendar, or an
\* object stored upstream
TargetExists == req.path \in {HomePath, CalendarPath} \cup StoredPaths

\* the immediate children of the addressed resource
Children ==
    CASE req.path = HomePath -> {CalendarPath}
      [] req.path = CalendarPath -> ListedPaths
      [] OTHER -> {}

\* C21: a PROPFIND on an existing home set, calendar or calendar object, the
\* upstream answering, has exactly one response for the resource itself at
\* Depth: 0, and the resource plus exactly its immediate children at Depth: 1.
C21_OneResponsePerTarget ==
    Responded("PROPFIND") /\ TargetExists /\ ~dh.fault =>
       ResponseHrefs = {req.path} \cup (IF req.depth = 1 THEN Children ELSE {})

\* C22: a DELETE of the calendar collection is refused with 403 and no
\* upstream call is issued for it.
C22_CalendarNotDeletable ==
    Responded("DELETE") /\ req.path = CalendarPath =>
       /\ resp.status = 403
       /\ calls = <<>>

\* C28: a Depth: 1 PROPFIND on the calendar whose upstream listing failed is
\* answered with an error status (500), never with a 207.
C28_ListingFailureIsError ==
    Responded("PROPFIND") /\ req.path = CalendarPath /\ req.depth = 1 /\ dh.fault =>
       resp.status = 500

\* C29: a PUT to the path of an event that exists upstream never creates
\* (POST) a second event, whatever the existence probe answered; when it
\* writes, it updates (PATCH) the event.
C29_ExistingNeverCreated ==
    req.method = "PUT" /\ dh.existed =>
       /\ ~dh.created
       /\ \A i \in 1..Len(calls) : calls[i] # "POST"
       /\ hpc # "put_post"

(***************************************************************************)
(* Failure of both grants (checked under SpecToken)                        *)
(***************************************************************************)
\* C30: in the step in which a caller's password grant fails (the last grant
\* a call tries, also after a failed refresh grant), the stored token set stays
\* the one the caller found when it took the mutex, and the mutex, held by
\* the caller until then, is free afterwards for the next that asks for a token.
C30_FailureLeavesTokens ==
    [][\A p \in Callers :
          pc[p] = "password_post" /\ pc'[p] = "token_error" =>
             /\ tokens' = tokens
             /\ tokens.access_token = hist.checkedTok[p]
             /\ lockHolder = p
             /\ lockHolder' = NoHolder]_vars

\* both grants of a call failed, the token set is still the stale one, and the
\* other caller, which waited for the mutex, now holds it for its own refresh
C30_Witness ==
    \E p, q \in Callers :
       /\ pc[p] = "token_error"
       /\ hist.refreshOutcome[p] = "fail" /\ hist.passwordOutcome[p] = "fail"
       /\ tokens.access_token = hist.checkedTok[p]
       /\ hist.waited[q]
       /\ lockHolder = q /\ pc[q] = "refresh_post"

(***************************************************************************)
(* The company-name memo (checked under SpecCard)                          *)
(***************************************************************************)
\* C27: once _company_name has been set its value never changes: it stays the
\* value of its first assignment, also when several requests pass the first
\* lookup together.
C27_MemoSingleAssignment ==
    ch.first # NoCompany => company_name = ch.first

(***************************************************************************)
(* Properties of the translations (checked under SpecTranslate)            *)
(***************************************************************************)
\* C26: an occurrence time of the upstream is taken as wall time of the
\* configured zone and converted to UTC by the zone's daylight-saving rules:
\* for Europe/Berlin the UTC instant returned, shown again on a Berlin clock
\* (UTC+2 from 2026-03-29 01:00 UTC to 2026-10-25 01:00 UTC, UTC+1 otherwise),
\* is the given date and time, unless that wall time was skipped; so 16:00 is
\* 15:00 UTC on January 10 and 14:00 UTC on July 10, and 00:00 on January 10
\* is 23:00 UTC on January 9.
C26_OccurrenceTimeToUtc ==
    xlOp = "_occurrence_time_to_utc" =>
       LET u == xlUtc.day * SecondsPerDay + xlUtc.sec
           summer == /\ u >= DstStartDay * SecondsPerDay + SecondsPerHour
                     /\ u < DstEndDay * SecondsPerDay + SecondsPerHour
           wall == FromSeconds(u + (IF summer THEN 2 * SecondsPerHour ELSE SecondsPerHour))
           skipped == /\ xlTime.day = DstStartDay
                      /\ xlTime.sec >= DstChangeSeconds - SecondsPerHour
                      /\ xlTime.sec < DstChangeSeconds
       IN  /\ ~skipped => wall = xlTime
           /\ xlTime = DateTime(10, 57600) => xlUtc = DateTime(10, 54000)
           /\ xlTime = DateTime(191, 57600) => xlUtc = DateTime(191, 50400)
           /\ xlTime = DateTime(10, 0) => xlUtc = DateTime(9, 82800)

\* 16:00 on July 10 was converted to 14:00 UTC
C26_Witness ==
    /\ xlOp = "_occurrence_time_to_utc"
    /\ xlTime = DateTime(191, 57600)
    /\ xlUtc = DateTime(191, 50400)

C25_LocalStartTime ==
    xlOp = "_ical_to_inform_event" /\ ~xlIcal.is_date /\ xlIcal.rrule # NoRrule =>
       LET u == xlIcal.dtstart.day * SecondsPerDay + xlIcal.dtstart.sec
           summer == /\ u >= DstStartDay * SecondsPerDay + SecondsPerHour
                     /\ u < DstEndDay * SecondsPerDay + SecondsPerHour
           wall == FromSeconds(u + (IF summer THEN 2 * SecondsPerHour ELSE SecondsPerHour))
       IN  xlOut.occurrenceStartTime = wall.sec

\* C23: a serial event of the upstream whose schema is daily, weekly, monthly
\* or yearly (not arrhythmic), translated to iCalendar and back, keeps its
\* eventMode, the variant of its seriesSchema (schemaType and regularity: all
\* business days come back as daily/allBusinessDays), its seriesStartDate,
\* its subject and its wholeDayEvent.
C23_RoundTrip ==
    xlOp = "round_trip" /\ xlEvent.seriesSchema # Arrhythmic =>
       /\ xlOut.eventMode = xlEvent.eventMode
       /\ xlOut.seriesSchema.schemaType = xlEvent.seriesSchema.schemaType
       /\ xlOut.seriesSchema.regularity = xlEvent.seriesSchema.regularity
       /\ xlOut.seriesStartDate = xlEvent.seriesStartDate
       /\ xlOut.subject = xlEvent.subject
       /\ xlOut.wholeDayEvent = xlEvent.wholeDayEvent
====
